---- MODULE Spec2Model ----
(***************************************************************************)
(* Model of web_messenger_app.js: the in-memory account store `users`, the *)
(* express sessions, the presence registry `onlineUsers` and the socket.io *)
(* handlers join / globalMessage / privateMessage / disconnect.            *)
(*                                                                         *)
(* Node runs every handler to completion on one thread, so each socket     *)
(* handler is one atomic action.  The two async HTTP handlers suspend at   *)
(* their single `await` and are therefore two actions each.                *)
(***************************************************************************)
EXTENDS Integers, Sequences, FiniteSets, TLC

\* ---------------------------------------------------------------- bounds
MaxSockets == 3
MaxClients == 2

SocketIds == 1..MaxSockets
Clients == 1..MaxClients

\* The JavaScript value undefined (distinct from the string "undefined").
Undefined == "<undefined>"

\* The key whose assignment on a plain object is swallowed by the
\* Object.prototype.__proto__ setter and whose read yields Object.prototype.
ProtoKey == "__proto__"

\* Nicknames a client may put in a join or a privateMessage event.
Names == {"alice", "undefined", ProtoKey}

\* Message bodies; "alice" is a body that asserts an identity.
Texts == {"hi", "alice"}

Passwords == {"pw1", "pw2"}

VARIABLES
  users,        \* line 28: own properties of `users`, nickname -> passwordHash
  session,      \* req.session.user of each client's session
  http,         \* the request each client has suspended at an await
  status,       \* per socket: "new" (not yet connected), "open", "closed"
  nickname,     \* socket.nickname
  joinedAs,     \* history: the argument of the socket's latest join event
  onlineUsers,  \* line 29: own properties of `onlineUsers`, nickname -> socket.id
  sent,         \* the emit calls made by the handler that ran last
  inbox,        \* what each socket received from the handler that ran last
  last          \* the event the handler that ran last was given

vars == <<users, session, http, status, nickname, joinedAs, onlineUsers, sent, inbox, last>>

\* ------------------------------------------------- JavaScript plain objects
\* A plain object {} is modelled by the function of its own properties.

\* obj[v] uses the property key ToPropertyKey(v): undefined becomes "undefined".
ToPropertyKey(v) == IF v = Undefined THEN "undefined" ELSE v

HasOwn(obj, k) == k \in DOMAIN obj

\* if (obj[k]) : an own property holds a non-empty string or an object, both
\* truthy; an absent key reads undefined unless Object.prototype supplies it.
Truthy(obj, k) == HasOwn(obj, k) \/ k = ProtoKey

\* obj[k] = v
ObjSet(obj, k, v) ==
  IF k = ProtoKey
    THEN obj
    ELSE [x \in (DOMAIN obj) \cup {k} |-> IF x = k THEN v ELSE obj[x]]

\* delete obj[k]
ObjDelete(obj, k) == [x \in (DOMAIN obj) \ {k} |-> obj[x]]

NoEvent == [op |-> "none", who |-> 0, arg |-> "", text |-> ""]
Event(op, who, arg, text) == [op |-> op, who |-> who, arg |-> arg, text |-> text]

NoMail == [c \in SocketIds |-> <<>>]

Idle == [op |-> "idle"]

Init ==
  /\ users = <<>>
  /\ session = [c \in Clients |-> Undefined]
  /\ http = [c \in Clients |-> Idle]
  /\ status = [s \in SocketIds |-> "new"]
  /\ nickname = [s \in SocketIds |-> Undefined]
  /\ joinedAs = [s \in SocketIds |-> Undefined]
  /\ onlineUsers = <<>>
  /\ sent = <<>>
  /\ inbox = NoMail
  /\ last = NoEvent

\* ------------------------------------------------------------ HTTP handlers

\* bcrypt.hash(password, 10): a string that bcrypt.compare matches against the
\* password it was made from and against no other.
Hash(p) == IF p = "pw1" THEN "$2b$10$(pw1)" ELSE "$2b$10$(pw2)"

\* bcrypt.compare(password, hash)
Compare(p, h) == h = Hash(p)

\* user.passwordHash for user = users[nickname], known truthy: the stored
\* hash, or undefined when `user` is Object.prototype.
PasswordHashOf(n) == IF HasOwn(users, n) THEN users[n] ELSE Undefined

Quiet == sent' = <<>> /\ inbox' = NoMail

\* app.post('/register'), up to `await bcrypt.hash`
RegisterBegin(c, n, p) ==
  /\ http[c] = Idle
  /\ IF Truthy(users, n)
       THEN /\ last' = Event("POST /register", c, n, "Nickname already exists")
            /\ UNCHANGED http
       ELSE /\ last' = Event("POST /register", c, n, "await")
            /\ http' = [http EXCEPT ![c] = [op |-> "register", nickname |-> n, password |-> p]]
  /\ Quiet
  /\ UNCHANGED <<users, session, status, nickname, joinedAs, onlineUsers>>

\* app.post('/register'), after the await
RegisterResume(c) ==
  /\ http[c].op = "register"
  /\ users' = ObjSet(users, http[c].nickname, Hash(http[c].password))
  /\ session' = [session EXCEPT ![c] = http[c].nickname]
  /\ http' = [http EXCEPT ![c] = Idle]
  /\ last' = Event("POST /register", c, http[c].nickname, "redirect /chat")
  /\ Quiet
  /\ UNCHANGED <<status, nickname, joinedAs, onlineUsers>>

\* app.post('/login'), up to `await bcrypt.compare`
LoginBegin(c, n, p) ==
  /\ http[c] = Idle
  /\ IF ~Truthy(users, n)
       THEN /\ last' = Event("POST /login", c, n, "Invalid credentials")
            /\ UNCHANGED http
       ELSE /\ last' = Event("POST /login", c, n, "await")
            /\ http' = [http EXCEPT ![c] = [op |-> "login", nickname |-> n, password |-> p,
                                            hash |-> PasswordHashOf(n)]]
  /\ Quiet
  /\ UNCHANGED <<users, session, status, nickname, joinedAs, onlineUsers>>

\* app.post('/login'), after the await; bcrypt.compare rejects when the hash
\* is undefined and the handler ends without touching the session.
LoginResume(c) ==
  /\ http[c].op = "login"
  /\ IF http[c].hash = Undefined
       THEN /\ last' = Event("POST /login", c, http[c].nickname, "error")
            /\ UNCHANGED session
       ELSE IF ~Compare(http[c].password, http[c].hash)
         THEN /\ last' = Event("POST /login", c, http[c].nickname, "Invalid credentials")
              /\ UNCHANGED session
         ELSE /\ last' = Event("POST /login", c, http[c].nickname, "redirect /chat")
              /\ session' = [session EXCEPT ![c] = http[c].nickname]
  /\ http' = [http EXCEPT ![c] = Idle]
  /\ Quiet
  /\ UNCHANGED <<users, status, nickname, joinedAs, onlineUsers>>

\* requireAuth: next() runs only when req.session.user is truthy.
Authenticated(c) == session[c] # Undefined /\ session[c] # ""

\* app.get('/chat'): the chat page of the session user, or a redirect to '/'.
GetChat(c) ==
  /\ last' = Event("GET /chat", c, "", IF Authenticated(c) THEN "chatPage" ELSE "redirect /")
  /\ Quiet
  /\ UNCHANGED <<users, session, http, status, nickname, joinedAs, onlineUsers>>

\* app.get('/search') without a query: the JSON list of all account names
\* (every name includes ''), or a redirect to '/'.
GetSearch(c) ==
  /\ last' = Event("GET /search", c, "", IF Authenticated(c) THEN "json" ELSE "redirect /")
  /\ Quiet
  /\ UNCHANGED <<users, session, http, status, nickname, joinedAs, onlineUsers>>

\* ------------------------------------------------------- socket.io handlers

\* io.emit(ev, payload): every connected socket receives it once.
EmitAll(payload) == [c \in SocketIds |-> IF status[c] = "open" THEN <<payload>> ELSE <<>>]

\* Mutant of EmitTo: the room filter is lost and the emit goes to everyone.
EmitToEveryone(rooms, payload) == EmitAll(payload)

\* io.to(room).emit(ev, payload): each connected socket is alone in the room
\* named by its own id; any other room is empty.
EmitTo(rooms, payload) ==
  [c \in SocketIds |-> IF c \in rooms /\ status[c] = "open" THEN <<payload>> ELSE <<>>]

\* The client whose browser opened socket s.
Owner(s) == ((s - 1) % MaxClients) + 1

\* io.on('connection'): a socket gets a fresh id and no nickname.
Connect(s) ==
  /\ status[s] = "new"
  /\ status' = [status EXCEPT ![s] = "open"]
  /\ sent' = <<>>
  /\ inbox' = NoMail
  /\ last' = Event("connection", s, "", "")
  /\ UNCHANGED <<users, session, http, nickname, joinedAs, onlineUsers>>

\* socket.on('join')
Join(s, n) ==
  /\ status[s] = "open"
  /\ nickname' = [nickname EXCEPT ![s] = n]
  /\ joinedAs' = [joinedAs EXCEPT ![s] = n]
  /\ onlineUsers' = ObjSet(onlineUsers, ToPropertyKey(n), s)
  /\ sent' = <<>>
  /\ inbox' = NoMail
  /\ last' = Event("join", s, n, "")
  /\ UNCHANGED <<users, session, http, status>>

\* Mutant of GlobalPayload: the sender is read from the message contents.
GlobalPayloadFromContents(s, msg) == [event |-> "globalMessage", user |-> msg, text |-> msg]

GlobalPayload(s, msg) == [event |-> "globalMessage", user |-> nickname[s], text |-> msg]

\* Mutant of GlobalMessage: the handler also refreshes the sender's presence.
GlobalMessageRefreshesPresence(s, msg) ==
  /\ status[s] = "open"
  /\ sent' = <<[all |-> TRUE, rooms |-> {}, payload |-> GlobalPayload(s, msg)]>>
  /\ inbox' = EmitAll(GlobalPayload(s, msg))
  /\ onlineUsers' = ObjSet(onlineUsers, ToPropertyKey(nickname[s]), s)
  /\ last' = Event("globalMessage", s, "", msg)
  /\ UNCHANGED <<users, session, http, status, nickname, joinedAs>>

\* socket.on('globalMessage')
GlobalMessage(s, msg) ==
  /\ status[s] = "open"
  /\ sent' = <<[all |-> TRUE, rooms |-> {}, payload |-> GlobalPayload(s, msg)]>>
  /\ inbox' = EmitAll(GlobalPayload(s, msg))
  /\ last' = Event("globalMessage", s, "", msg)
  /\ UNCHANGED <<users, session, http, status, nickname, joinedAs, onlineUsers>>

PrivatePayload(s, text) == [event |-> "privateMessage", from |-> nickname[s], text |-> text]

\* The room io.to(targetId) addresses: the socket whose id targetId is, or no
\* socket when targetId is not a socket id (Object.prototype).
TargetRooms(to) ==
  IF HasOwn(onlineUsers, ToPropertyKey(to)) THEN {onlineUsers[ToPropertyKey(to)]} ELSE {}

\* Mutant of PrivateMessage: an unknown target falls back to a broadcast.
PrivateMessageOrBroadcast(s, to, text) ==
  /\ status[s] = "open"
  /\ IF HasOwn(onlineUsers, ToPropertyKey(to))
       THEN /\ sent' = <<[all |-> FALSE, rooms |-> TargetRooms(to),
                          payload |-> PrivatePayload(s, text)]>>
            /\ inbox' = EmitTo(TargetRooms(to), PrivatePayload(s, text))
       ELSE /\ sent' = <<[all |-> TRUE, rooms |-> {}, payload |-> PrivatePayload(s, text)]>>
            /\ inbox' = EmitAll(PrivatePayload(s, text))
  /\ last' = Event("privateMessage", s, to, text)
  /\ UNCHANGED <<users, session, http, status, nickname, joinedAs, onlineUsers>>

\* socket.on('privateMessage')
PrivateMessage(s, to, text) ==
  /\ status[s] = "open"
  /\ IF Truthy(onlineUsers, ToPropertyKey(to))
       THEN /\ sent' = <<[all |-> FALSE, rooms |-> TargetRooms(to),
                          payload |-> PrivatePayload(s, text)]>>
            /\ inbox' = EmitTo(TargetRooms(to), PrivatePayload(s, text))
       ELSE /\ sent' = <<>>
            /\ inbox' = NoMail
  /\ last' = Event("privateMessage", s, to, text)
  /\ UNCHANGED <<users, session, http, status, nickname, joinedAs, onlineUsers>>

\* socket.on('disconnect')
Disconnect(s) ==
  /\ status[s] = "open"
  /\ status' = [status EXCEPT ![s] = "closed"]
  /\ onlineUsers' = ObjDelete(onlineUsers, ToPropertyKey(nickname[s]))
  /\ sent' = <<>>
  /\ inbox' = NoMail
  /\ last' = Event("disconnect", s, "", "")
  /\ UNCHANGED <<users, session, http, nickname, joinedAs>>

Next ==
  \/ \E s \in SocketIds : Connect(s)
  \/ \E s \in SocketIds, n \in Names : Join(s, n)
  \/ \E s \in SocketIds, msg \in Texts : GlobalMessage(s, msg)
  \/ \E s \in SocketIds, to \in Names, text \in Texts : PrivateMessage(s, to, text)
  \/ \E s \in SocketIds : Disconnect(s)

Spec == Init /\ [][Next]_vars

\* ------------------------------------------------------------------ claims

\* The channels the registry currently holds.
RegisteredChannels == {onlineUsers[k] : k \in DOMAIN onlineUsers}

Routed == last.op \in {"globalMessage", "privateMessage"}

\* The sender field of a delivered payload.
SenderOf(m) == IF m.event = "globalMessage" THEN m.user ELSE m.from

\* C1: when socket c1 joined as h and another socket then joined as h, the
\* disconnect of c1 leaves the registry as it was: h still maps to the other
\* socket.
C1_StaleDisconnectIsNoOp ==
  [][\A h \in Names :
       (/\ last'.op = "disconnect"
        /\ joinedAs[last'.who] = h
        /\ HasOwn(onlineUsers, h)
        /\ onlineUsers[h] # last'.who)
       => (/\ onlineUsers' = onlineUsers
           /\ HasOwn(onlineUsers', h)
           /\ onlineUsers'[h] = onlineUsers[h])]_vars

\* C2: every handle has at most one registered channel, and right after a
\* join(h) the registry maps h to the socket that sent that join.
C2_LastJoinWins ==
  /\ \A h \in Names : Cardinality({s \in SocketIds : HasOwn(onlineUsers, h) /\ onlineUsers[h] = s}) <= 1
  /\ last.op = "join" =>
       /\ HasOwn(onlineUsers, ToPropertyKey(last.arg))
       /\ onlineUsers[ToPropertyKey(last.arg)] = last.who

\* Last-join-wins holds for every handle other than "__proto__".
LastJoinWinsExceptProto ==
  (last.op = "join" /\ last.arg # ProtoKey) =>
     /\ HasOwn(onlineUsers, ToPropertyKey(last.arg))
     /\ onlineUsers[ToPropertyKey(last.arg)] = last.who

\* C3: when a joined socket sends a globalMessage, every registered channel
\* (the sender's included) receives exactly one globalMessage carrying that
\* text and the sender's handle.
C3_BroadcastFanOut ==
  (last.op = "globalMessage" /\ joinedAs[last.who] # Undefined) =>
     \A c \in RegisteredChannels :
        inbox[c] = <<[event |-> "globalMessage", user |-> joinedAs[last.who], text |-> last.text]>>

\* C4: a globalMessage is received only by channels the registry holds.
C4_BroadcastOnlyToRegistered ==
  \A c \in SocketIds :
     (\E i \in 1..Len(inbox[c]) : inbox[c][i].event = "globalMessage") => c \in RegisteredChannels

\* C5: a privateMessage to a registered target makes exactly one emit, to the
\* channel registered under the target; that channel receives it once if it is
\* connected, and no other channel receives anything.
C5_DirectIsolation ==
  (last.op = "privateMessage" /\ HasOwn(onlineUsers, ToPropertyKey(last.arg))) =>
     LET t == onlineUsers[ToPropertyKey(last.arg)]
         m == [event |-> "privateMessage", from |-> nickname[last.who], text |-> last.text]
     IN /\ sent = <<[all |-> FALSE, rooms |-> {t}, payload |-> m]>>
        /\ \A c \in SocketIds \ {t} : inbox[c] = <<>>
        /\ inbox[t] = IF status[t] = "open" THEN <<m>> ELSE <<>>

\* C5 witness: the target's current channel got the message while the sender,
\* joined under another handle, and a superseded earlier channel of the target
\* are connected and got nothing.
C5_Witness ==
  /\ last.op = "privateMessage"
  /\ HasOwn(onlineUsers, last.arg)
  /\ Len(inbox[onlineUsers[last.arg]]) = 1
  /\ last.who # onlineUsers[last.arg]
  /\ joinedAs[last.who] \notin {Undefined, last.arg}
  /\ \E c \in SocketIds \ {last.who, onlineUsers[last.arg]} :
        status[c] = "open" /\ joinedAs[c] = last.arg /\ inbox[c] = <<>>

\* C6: a privateMessage whose target has no entry in the registry reaches no
\* channel and leaves the registry and the sockets as they were.
C6_DroppedDirect ==
  [][(last'.op = "privateMessage" /\ ~HasOwn(onlineUsers, ToPropertyKey(last'.arg)))
       => (/\ \A c \in SocketIds : inbox'[c] = <<>>
           /\ onlineUsers' = onlineUsers
           /\ status' = status
           /\ nickname' = nickname)]_vars

\* C6 witness: a target that was registered and then unregistered is written
\* to while other channels are registered and connected.
C6_Witness ==
  /\ last.op = "privateMessage"
  /\ last.arg = "alice"
  /\ ~HasOwn(onlineUsers, "alice")
  /\ \E c \in SocketIds : joinedAs[c] = "alice" /\ status[c] = "closed"
  /\ \E c \in RegisteredChannels : status[c] = "open" /\ c # last.who
  /\ inbox = NoMail

\* C7: the sender of every delivery is the handle the sending socket gave in
\* its latest join, whatever the message says.
C7_SessionBoundSender ==
  Routed =>
     /\ \A i \in 1..Len(sent) : SenderOf(sent[i].payload) = joinedAs[last.who]
     /\ \A c \in SocketIds : \A i \in 1..Len(inbox[c]) :
           SenderOf(inbox[c][i]) = joinedAs[last.who]

\* C7 witness: a socket joined as "undefined" sends the body "alice" and some
\* socket receives it with sender "undefined".
C7_Witness ==
  /\ last.op = "globalMessage"
  /\ last.text = "alice"
  /\ joinedAs[last.who] = "undefined"
  /\ \E c \in SocketIds \ {last.who} :
        inbox[c] = <<[event |-> "globalMessage", user |-> "undefined", text |-> "alice"]>>

\* C8: every handle in the registry is an account and is the session user of
\* the client whose socket is registered under it.
C8_OnlyAuthenticatedRegister ==
  \A k \in DOMAIN onlineUsers :
     /\ HasOwn(users, k)
     /\ session[Owner(onlineUsers[k])] = k

\* C9: after the disconnect of a socket, no handle maps to that socket.
C9_DisconnectUnregisters ==
  last.op = "disconnect" => last.who \notin RegisteredChannels

\* C10: the handles in the registry are the handles of the connected, joined
\* sockets.
C10_QuiescenceConsistency ==
  DOMAIN onlineUsers =
    {joinedAs[s] : s \in {c \in SocketIds : status[c] = "open" /\ joinedAs[c] # Undefined}}

\* The session gate together with the handlers that write the registry.  The
\* HTTP handlers and the socket handlers share no variable, so the gate is
\* explored with the sockets of the first client only.
GateSockets == {s \in SocketIds : s <= 1}

NextGate ==
  \/ \E c \in Clients, n \in Names, p \in Passwords : RegisterBegin(c, n, p)
  \/ \E c \in Clients : RegisterResume(c)
  \/ \E c \in Clients, n \in Names, p \in Passwords : LoginBegin(c, n, p)
  \/ \E c \in Clients : LoginResume(c)
  \/ \E s \in GateSockets : Connect(s)
  \/ \E s \in GateSockets, n \in Names : Join(s, n)
  \/ \E s \in GateSockets : Disconnect(s)

SpecGate == Init /\ [][NextGate]_vars

\* The HTTP handlers alone: they read and write only users, session and http.
NextHttp ==
  \/ \E c \in Clients, n \in Names, p \in Passwords : RegisterBegin(c, n, p)
  \/ \E c \in Clients : RegisterResume(c)
  \/ \E c \in Clients, n \in Names, p \in Passwords : LoginBegin(c, n, p)
  \/ \E c \in Clients : LoginResume(c)
  \/ \E c \in Clients : GetChat(c)
  \/ \E c \in Clients : GetSearch(c)

SpecHttp == Init /\ [][NextHttp]_vars

\* C11: a POST /register that completes for a nickname that already has an
\* account is answered 'Nickname already exists' and changes neither the stored
\* hash nor any session, also when it was in flight while the account was made.
C11_RegisterUniqueUnderConcurrency ==
  [][(last'.op = "POST /register" /\ last'.text # "await" /\ HasOwn(users, last'.arg))
       => (/\ last'.text = "Nickname already exists"
           /\ users' = users
           /\ session' = session)]_vars

\* C12: join(h) on socket c makes the registry map h to c, whatever the state
\* before, and leaves the mapping of every other handle as it was.
C12_RegisterFrame ==
  [][last'.op = "join" =>
       LET k == ToPropertyKey(last'.arg)
       IN /\ HasOwn(onlineUsers', k)
          /\ onlineUsers'[k] = last'.who
          /\ \A x \in Names \ {k} :
                /\ HasOwn(onlineUsers', x) <=> HasOwn(onlineUsers, x)
                /\ HasOwn(onlineUsers, x) => onlineUsers'[x] = onlineUsers[x]]_vars

\* join leaves the mapping of every handle other than its own as it was, and
\* registers every handle other than "__proto__".
JoinFrameExceptProto ==
  [][last'.op = "join" =>
       LET k == ToPropertyKey(last'.arg)
       IN /\ k # ProtoKey => (HasOwn(onlineUsers', k) /\ onlineUsers'[k] = last'.who)
          /\ \A x \in Names \ {k} :
                /\ HasOwn(onlineUsers', x) <=> HasOwn(onlineUsers, x)
                /\ HasOwn(onlineUsers, x) => onlineUsers'[x] = onlineUsers[x]]_vars

\* C13: a socket that has sent no join causes no delivery, and the sender of
\* every delivery is the handle of a join the sending socket sent before.
C13_NoDeliveryBeforeJoin ==
  Routed =>
     \A c \in SocketIds : \A i \in 1..Len(inbox[c]) :
        /\ joinedAs[last.who] # Undefined
        /\ SenderOf(inbox[c][i]) = joinedAs[last.who]

\* C14: every handle in the registry maps to a socket that is connected and
\* whose bound handle is that handle.
C14_EntriesAreLive ==
  \A k \in DOMAIN onlineUsers :
     /\ status[onlineUsers[k]] = "open"
     /\ nickname[onlineUsers[k]] = k

\* C15: the disconnect of a socket that never joined leaves the registry as it
\* was.
C15_UnjoinedDisconnectFrame ==
  [][(last'.op = "disconnect" /\ joinedAs[last'.who] = Undefined)
       => onlineUsers' = onlineUsers]_vars

\* C16: handling a globalMessage or a privateMessage, delivered or not, leaves
\* the registry, the accounts, the sessions and every socket's handle as they
\* were.
C16_RoutingIsStateless ==
  [][last'.op \in {"globalMessage", "privateMessage"} =>
       /\ onlineUsers' = onlineUsers
       /\ users' = users
       /\ session' = session
       /\ nickname' = nickname
       /\ status' = status]_vars

\* C16 witness: a message was delivered while the registry holds an entry for
\* a socket other than the sender, whose own entry is gone.
C16_Witness ==
  /\ Routed
  /\ inbox # NoMail
  /\ joinedAs[last.who] # Undefined
  /\ last.who \notin RegisteredChannels
  /\ RegisteredChannels # {}

\* C17: a request ends with the session user set to n only as a /register that
\* created account n or a /login whose password matches the hash stored for n;
\* sessions change in no other way; a refused registration and a failed login
\* change neither sessions nor accounts; /chat and /search answer with content
\* only to a session that has a user.
C17_SessionGate ==
  [][/\ last'.text = "redirect /chat" =>
          /\ session' = [session EXCEPT ![last'.who] = last'.arg]
          /\ \/ /\ last'.op = "POST /register"
                /\ ~HasOwn(users, last'.arg)
                /\ HasOwn(users', last'.arg)
             \/ /\ last'.op = "POST /login"
                /\ HasOwn(users, last'.arg)
                /\ Compare(http[last'.who].password, users[last'.arg])
                /\ users' = users
     /\ last'.text # "redirect /chat" => session' = session
     /\ last'.text \in {"Nickname already exists", "Invalid credentials", "error"} => users' = users
     /\ last'.text \in {"chatPage", "json"} => Authenticated(last'.who)]_vars

====
